---- MODULE Spec2Model ----
(***************************************************************************)
(* Model of src/assignment2.js: an Express application with signup, login, *)
(* sessions kept in a store, and admin promote/demote of user records.     *)
(* The file holds three successive versions of the same program (lines     *)
(* 1-253, 254-416 and 417-666); `version' selects the one that is running. *)
(* Every await of a handler is a point where other requests may run, so    *)
(* each handler is one action per piece of code between two awaits.        *)
(***************************************************************************)
EXTENDS Integers, Sequences, FiniteSets, TLC

\* ---------------------------------------------------------------- bounds
MaxUsers == 3

\* ------------------------------------------------------------- constants
MaxNameLen == 30
MinPasswordLen == 6
SaltRounds == 10

Versions == {1, 2, 3}
Clients == {"c1", "c2"}
Slots == {1, 2}

\* An optional value (undefined / null in the source) is a sequence of
\* length 0; a present value v is <<v>>.
None == <<>>
Some(v) == <<v>>

\* ----------------------------------------------------------------- inputs
\* An email is a sequence of characters, so that toLowerCase is computed.
AdaLower == <<"a", "@", "x", ".", "com">>
AdaMixed == <<"A", "@", "x", ".", "com">>
BobLower == <<"b", "@", "x", ".", "com">>
NotAnEmail == <<"a", "x", ".", "com">>

LongName == "AdaAdaAdaAdaAdaAdaAdaAdaAdaAdaA"

Routes ==
  {"GET /", "POST /signupSubmit", "POST /loginSubmit", "GET /members",
   "GET /logout", "GET /admin", "POST /admin/promote", "POST /admin/demote",
   "GET /other"}

NoBody == [name |-> "", email |-> <<>>, password |-> "", userId |-> 0]

SignupBody(n, e, p) == [NoBody EXCEPT !.name = n, !.email = e, !.password = p]
LoginBody(e, p) == [NoBody EXCEPT !.email = e, !.password = p]

\* The request bodies a client sends to a route: the valid ones, and one
\* body for each way validation can fail.  Fields a route does not read are
\* left at their defaults.  User id 0 stands for a malformed identifier.
Bodies(route) ==
  CASE route = "POST /signupSubmit" ->
         {SignupBody("Ada", e, "secret1") : e \in {AdaLower, AdaMixed, BobLower}}
         \cup {SignupBody("", AdaLower, "secret1"),
               SignupBody(LongName, AdaLower, "secret1"),
               SignupBody("Ada", NotAnEmail, "secret1"),
               SignupBody("Ada", AdaLower, "short")}
    [] route = "POST /loginSubmit" ->
         {LoginBody(e, p) : e \in {AdaLower, AdaMixed, BobLower},
                            p \in {"secret1", "wrong12"}}
         \cup {LoginBody(NotAnEmail, "secret1"), LoginBody(AdaLower, "")}
    [] route \in {"POST /admin/promote", "POST /admin/demote"} ->
         {[NoBody EXCEPT !.userId = u] : u \in 0 .. MaxUsers}
    [] OTHER -> {NoBody}

\* ------------------------------------------------------------ pure helpers
LowerChar(c) ==
  CASE c = "A" -> "a"
    [] c = "B" -> "b"
    [] OTHER -> c

\* String.prototype.toLowerCase
ToLowerCase(s) == [i \in 1 .. Len(s) |-> LowerChar(s[i])]

TopLevelDomains == {"com"}

\* Joi.string().email(): one "@", a non-empty local part, and a domain of at
\* least two segments ending in a known top-level domain.
IsEmail(e) ==
  \E i \in 2 .. (Len(e) - 3) :
    /\ e[i] = "@"
    /\ \A j \in 1 .. Len(e) : j # i => e[j] # "@"
    /\ e[Len(e)] \in TopLevelDomains
    /\ e[Len(e) - 1] = "."
    /\ \A j \in (i + 1) .. (Len(e) - 2) : e[j] # "."

\* bcrypt.hash(password, rounds): a salted one-way hash, never the password.
BcryptHash(password, rounds, salt) ==
  [alg |-> "bcrypt", rounds |-> rounds, salt |-> salt, of |-> password]

BcryptCompareAny(password, hash) == TRUE

\* bcrypt.compare(password, hash)
BcryptCompare(password, hash) == hash.of = password

Salts == {"s1"}

\* new ObjectId(s) throws unless s is a well-formed identifier; 0 stands for
\* a malformed one.
IsObjectId(u) == u # 0

\* collection.findOne(filter): the first matching document in natural
\* order, given the positions of the matching documents.
FirstOf(docs, hits) ==
  IF hits = {} THEN None
  ELSE Some(docs[CHOOSE i \in hits : \A j \in hits : i <= j])

FindOneByEmail(docs, email) ==
  FirstOf(docs, {i \in 1 .. Len(docs) : docs[i].email = email})

FindOneById(docs, id) ==
  FirstOf(docs, {i \in 1 .. Len(docs) : docs[i]._id = id})

UpdateManyType(docs, id, type) ==
  [i \in 1 .. Len(docs) |->
     [k \in DOMAIN docs[i] \cup {"type"} |->
        IF k = "type" THEN type ELSE docs[i][k]]]

\* collection.updateOne({_id}, {$set: {type}})
UpdateOneType(docs, id, type) ==
  [i \in 1 .. Len(docs) |->
     IF docs[i]._id = id /\ \A j \in 1 .. (i - 1) : docs[j]._id # id
     THEN [k \in DOMAIN docs[i] \cup {"type"} |->
             IF k = "type" THEN type ELSE docs[i][k]]
     ELSE docs[i]]

InsertOneUniqueEmail(docs, doc) ==
  IF \E i \in 1 .. Len(docs) : docs[i].email = doc.email THEN docs
  ELSE Append(docs, [k \in DOMAIN doc \cup {"_id"} |->
                       IF k = "_id" THEN Len(docs) + 1 ELSE doc[k]])

\* collection.insertOne(doc): the driver adds a fresh _id.
InsertOne(docs, doc) ==
  Append(docs, [k \in DOMAIN doc \cup {"_id"} |->
                  IF k = "_id" THEN Len(docs) + 1 ELSE doc[k]])

\* ---------------------------------------------------------------- responses
Redirect(location) == [status |-> 302, location |-> location]
Send(status, body) == [status |-> status, body |-> body]
Render(status, view, locals) == [status |-> status, view |-> view, locals |-> locals]

InvalidCombination == "Invalid email/password combination"
AlreadyRegistered == "Email already registered."
CannotDemoteSelf == "You cannot demote yourself."
RegistrationError == "An unexpected error occurred during registration. Please try again later."
LoginError == "An unexpected error occurred during login. Please try again later."
LogoutError == "An error has occurred. Couldn't log you out."

UserNotFoundRevealed == Send(200, "No account with this email")

\* The answers of the login handler to an unknown email and to a password
\* that does not verify.
UserNotFoundResponse == Send(200, InvalidCombination)
PasswordMismatchResponse == Send(200, InvalidCombination)

\* signupSchema.validate(req.body): the first failing rule, in key order.
SignupValidate(body) ==
  IF body.name = "" THEN Some("name is not allowed to be empty")
  ELSE IF Len(body.name) > MaxNameLen
    THEN Some("name length must be less than or equal to 30 characters long")
  ELSE IF ~IsEmail(body.email) THEN Some("email must be a valid email")
  ELSE IF body.password = "" THEN Some("password is not allowed to be empty")
  ELSE IF Len(body.password) < MinPasswordLen
    THEN Some("password length must be at least 6 characters long")
  ELSE None

\* loginSchema.validate(req.body)
LoginValidate(body) ==
  IF ~IsEmail(body.email) THEN Some("email must be a valid email")
  ELSE IF body.password = "" THEN Some("password is not allowed to be empty")
  ELSE None

\* ------------------------------------------------------------------- state
VARIABLES
  version,   \* which of the three programs of the file is running
  phase,     \* start(): the outcome of connect, and whether the app listens
  users,     \* the users collection, in insertion order
  store,     \* the session store: client token -> optional session
  req        \* the requests in flight, one per slot

vars == <<version, phase, users, store, req>>

\* A new, empty req.session.
EmptySession == [user |-> None, name |-> None]

Idle ==
  [pc |-> "idle", client |-> "c1", route |-> "GET /", body |-> NoBody,
   session |-> None, doc |-> None, hashcode |-> None, resp |-> <<>>,
   fault |-> FALSE,
   before |-> [n |-> 0, taken |-> FALSE, session |-> None, users |-> <<>>]]

InFlight(r) == req[r].pc \notin {"idle", "done"}

\* The record an administrator of the database has given the admin role by
\* hand: the program itself has no other way to a first admin.
SeededAdmin ==
  [_id |-> 1, name |-> "Root", email |-> BobLower,
   password |-> BcryptHash("secret1", SaltRounds, "s1"), type |-> "admin"]

\* start() has been called and awaits client.connect().
Starting == [connect |-> "pending", listening |-> FALSE]

Init ==
  /\ version \in Versions
  /\ phase = Starting
  /\ users \in {<<>>, <<SeededAdmin>>}
  /\ store = [c \in Clients |-> None]
  /\ req = [r \in Slots |-> Idle]

\* ------------------------------------------------------------------ helpers
\* The routes each version registers; anything else falls to app.use.
RoutesOf(v) ==
  IF v = 2
  THEN Routes \ {"GET /admin", "POST /admin/promote", "POST /admin/demote", "GET /other"}
  ELSE Routes \ {"GET /other"}

At(r, route, pc) ==
  /\ req[r].pc = pc
  /\ req[r].route = route
  /\ route \in RoutesOf(version)

\* req.session of an in-flight request (present until it is destroyed).
Sess(r) == req[r].session[1]

\* user.type || 'user'
TypeOrUser(doc) == IF "type" \in DOMAIN doc THEN doc.type ELSE "user"

\* A request ends: its local variables go out of scope, and only the
\* latest finished request is kept for inspection.
Finish(r, rec) ==
  req' = [q \in Slots |->
            IF q = r THEN [rec EXCEPT !.pc = "done", !.doc = None, !.hashcode = None]
            ELSE IF req[q].pc = "done" THEN Idle
            ELSE req[q]]

\* The handler calls a res method that ends the response, and returns.
Respond(r, response) ==
  Finish(r, [req[r] EXCEPT !.resp = Append(@, response)])

\* An awaited operation rejects and the handler's catch block answers.
Fail(r, response) ==
  Finish(r, [req[r] EXCEPT !.resp = Append(@, response), !.fault = TRUE])

\* The handler changed req.session and ended the response: express-session
\* writes the session to the store before the response goes out.
RespondAndSave(r, session, response) ==
  req' = [req EXCEPT ![r].pc = "save", ![r].session = Some(session),
                     ![r].resp = Append(@, response),
                     ![r].doc = None, ![r].hashcode = None]

EmailTaken(docs, email) ==
  \E i \in 1 .. Len(docs) : ToLowerCase(docs[i].email) = ToLowerCase(email)

\* The collection is bounded: a signup that can reach its insert is received
\* only while there is room for the record of every signup in flight.
MayInsert(body) ==
  /\ SignupValidate(body) = None
  /\ ~(version = 1 /\ FindOneByEmail(users, ToLowerCase(body.email)) # None)

\* ------------------------------------------------------------------ actions
StartOutcomeListenAnyway(ok) ==
  [connect |-> IF ok THEN "ok" ELSE "failed", listening |-> TRUE]

\* The rest of start() after client.connect(): the middleware, the routes
\* and app.listen are inside the try block, so a rejected connect skips
\* them all and only logs.
StartOutcome(ok) ==
  IF ok THEN [connect |-> "ok", listening |-> TRUE]
  ELSE [connect |-> "failed", listening |-> FALSE]

\* start(): await client.connect(), then the routes are registered and the
\* server listens; a rejected connect is caught and logged.
Connect ==
  /\ phase = Starting
  /\ \E ok \in BOOLEAN : phase' = StartOutcome(ok)
  /\ UNCHANGED <<version, users, store, req>>

\* A request arrives: the session middleware loads the session of the
\* client's token from the store, or makes a new empty one.  The request
\* takes the first free slot.
Receive(r, c, route, body) ==
  /\ phase.listening
  /\ ~InFlight(r)
  /\ \A q \in Slots : q < r => InFlight(q)
  /\ (route = "POST /signupSubmit" /\ MayInsert(body)) =>
       Len(users) + Cardinality({q \in Slots : InFlight(q) /\ req[q].route = route})
         < MaxUsers
  /\ req' = [q \in Slots |->
       IF q = r
       THEN [Idle EXCEPT !.pc = "handler", !.client = c, !.route = route,
               !.body = body,
               !.session = Some(IF store[c] = None THEN EmptySession ELSE store[c][1]),
               !.before = [n |-> Len(users),
                           taken |-> EmailTaken(users, body.email),
                           session |-> store[c],
                           users |-> users]]
       ELSE IF InFlight(q) THEN req[q]
       ELSE Idle]
  /\ UNCHANGED <<version, phase, users, store>>

\* No request is being handled.
Quiet == \A q \in Slots : ~InFlight(q)

\* A request arrives after the previous one has been answered.
ReceiveAlone(r, c, route, body) == Quiet /\ Receive(r, c, route, body)

\* express-session's end-of-response hook: store.set(token, req.session).
SessionSave(r) ==
  /\ req[r].pc = "save"
  /\ store' = [store EXCEPT ![req[r].client] = req[r].session]
  /\ Finish(r, req[r])
  /\ UNCHANGED <<version, phase, users>>

\* app.get('/')
Home(r) ==
  /\ At(r, "GET /", "handler")
  /\ Respond(r,
       IF version = 2
       THEN IF Sess(r).name # None
            THEN Render(200, "index",
                   [loggedInConfirmation |-> TRUE, name |-> Sess(r).name[1]])
            ELSE Render(200, "index", [loggedInConfirmation |-> FALSE])
       ELSE Render(200, "index",
              [loggedInConfirmation |-> Sess(r).user # None,
               name |-> IF Sess(r).user # None THEN Sess(r).user[1].name ELSE "",
               isAdmin |-> Sess(r).user # None /\ Sess(r).user[1].type = "admin"]))
  /\ UNCHANGED <<version, phase, users, store>>

MembersResponseNoGate(v, session) ==
  IF v = 2
  THEN IF session.name = None THEN Redirect("/")
       ELSE Render(200, "members", [user |-> session.name[1]])
  ELSE Render(200, "members",
         [user |-> IF session.user = None THEN "" ELSE session.user[1].name,
          isAdmin |-> session.user # None /\ session.user[1].type = "admin"])

\* The answer of GET /members for a session.
MembersResponse(v, session) ==
  IF v = 2
  THEN IF session.name = None THEN Redirect("/")
       ELSE Render(200, "members", [user |-> session.name[1]])
  ELSE IF session.user = None THEN Redirect("/")
       ELSE Render(200, "members",
              [user |-> session.user[1].name,
               isAdmin |-> session.user[1].type = "admin"])

\* app.get('/members')
Members(r) ==
  /\ At(r, "GET /members", "handler")
  /\ Respond(r, MembersResponse(version, Sess(r)))
  /\ UNCHANGED <<version, phase, users, store>>

\* app.use((req, res) => ...): no route matched.
NotFound(r) ==
  /\ req[r].pc = "handler"
  /\ req[r].route \notin RoutesOf(version)
  /\ Respond(r, IF version = 1 THEN Render(404, "404", [page |-> "404"])
                ELSE Send(404, "Page not found - 404"))
  /\ UNCHANGED <<version, phase, users, store>>

\* ------------------------------------------------------------------ signup
SignupDocRawEmail(v, body, hashcode) ==
  IF v = 2 THEN [name |-> body.name, email |-> body.email, password |-> hashcode]
  ELSE [name |-> body.name, email |-> body.email,
        password |-> hashcode, type |-> "user"]

\* The document insertOne is given, and the session the handler sets.
SignupDoc(v, body, hashcode) ==
  CASE v = 1 -> [name |-> body.name, email |-> ToLowerCase(body.email),
                 password |-> hashcode, type |-> "user"]
    [] v = 2 -> [name |-> body.name, email |-> body.email, password |-> hashcode]
    [] v = 3 -> [name |-> body.name, email |-> body.email,
                 password |-> hashcode, type |-> "user"]

SignupSessionAdmin(v, session, body) ==
  IF v = 2 THEN [session EXCEPT !.name = Some(body.name)]
  ELSE [session EXCEPT !.user =
          Some([name |-> body.name, email |-> ToLowerCase(body.email),
                type |-> "admin"])]

SignupSession(v, session, body) ==
  CASE v = 1 -> [session EXCEPT !.user =
                   Some([name |-> body.name, email |-> ToLowerCase(body.email),
                         type |-> "user"])]
    [] v = 2 -> [session EXCEPT !.name = Some(body.name)]
    [] v = 3 -> [session EXCEPT !.user =
                   Some([name |-> body.name, email |-> body.email, type |-> "user"])]

\* What the handler does after a successful validation, up to its first
\* await.  Version 3 reads `email' before the const that declares it, which
\* throws a ReferenceError into the catch block.
SignupAfterValidate(v) ==
  CASE v = 1 -> "signup.findOne"
    [] v = 2 -> "signup.hash"
    [] v = 3 -> "catch"

\* app.post('/signupSubmit'): validation and the code up to the first await.
SignupSubmit(r) ==
  /\ At(r, "POST /signupSubmit", "handler")
  /\ LET error == SignupValidate(req[r].body)
         next == SignupAfterValidate(version)
     IN IF error # None THEN Respond(r, Send(200, error[1]))
        ELSE IF next = "catch" THEN Respond(r, Send(500, RegistrationError))
        ELSE req' = [req EXCEPT ![r].pc = next]
  /\ UNCHANGED <<version, phase, users, store>>

\* await users.findOne({ email: normalizedEmail }) and the duplicate check.
SignupFindOne(r) ==
  /\ At(r, "POST /signupSubmit", "signup.findOne")
  /\ \E ok \in BOOLEAN :
       IF ~ok THEN Fail(r, Send(500, RegistrationError))
       ELSE LET existingUser == FindOneByEmail(users, ToLowerCase(req[r].body.email))
            IN IF existingUser # None THEN Respond(r, Send(200, AlreadyRegistered))
               ELSE req' = [req EXCEPT ![r].pc = "signup.hash"]
  /\ UNCHANGED <<version, phase, users, store>>

\* await bcrypt.hash(password, 10)
SignupHash(r) ==
  /\ At(r, "POST /signupSubmit", "signup.hash")
  /\ \E ok \in BOOLEAN, salt \in Salts :
       IF ~ok THEN Fail(r, Send(500, RegistrationError))
       ELSE req' = [req EXCEPT ![r].pc = "signup.insertOne",
                      ![r].hashcode =
                         Some(BcryptHash(req[r].body.password, SaltRounds, salt))]
  /\ UNCHANGED <<version, phase, users, store>>

SignupInsertOneSessionFirst(r) ==
  /\ At(r, "POST /signupSubmit", "signup.insertOne")
  /\ \E ok \in BOOLEAN :
       IF ~ok
       THEN /\ req' = [req EXCEPT ![r].pc = "save", ![r].fault = TRUE,
                         ![r].session =
                            Some(SignupSession(version, Sess(r), req[r].body)),
                         ![r].resp = Append(@, Send(500, RegistrationError)),
                         ![r].doc = None, ![r].hashcode = None]
            /\ UNCHANGED users
       ELSE /\ users' = InsertOne(users,
                          SignupDoc(version, req[r].body, req[r].hashcode[1]))
            /\ RespondAndSave(r, SignupSession(version, Sess(r), req[r].body),
                              Redirect("/members"))
  /\ UNCHANGED <<version, phase, store>>

\* await users.insertOne(...), then req.session is set and the redirect sent.
SignupInsertOne(r) ==
  /\ At(r, "POST /signupSubmit", "signup.insertOne")
  /\ \E ok \in BOOLEAN :
       IF ~ok THEN Fail(r, Send(500, RegistrationError)) /\ UNCHANGED users
       ELSE /\ users' = InsertOne(users,
                          SignupDoc(version, req[r].body, req[r].hashcode[1]))
            /\ RespondAndSave(r, SignupSession(version, Sess(r), req[r].body),
                              Redirect("/members"))
  /\ UNCHANGED <<version, phase, store>>

\* ------------------------------------------------------------------- login
\* The session snapshot the login handler builds from the found document.
LoginSession(v, session, user) ==
  IF v = 2 THEN [session EXCEPT !.name = Some(user.name)]
  ELSE [session EXCEPT !.user =
          Some([id |-> user._id, name |-> user.name, email |-> user.email,
                type |-> TypeOrUser(user)])]

LoginRedirect(v, user) ==
  IF v = 3 /\ TypeOrUser(user) = "admin" THEN Redirect("/admin")
  ELSE Redirect("/members")

\* The email the login handler gives to findOne.
LoginLookupEmail(body) == body.email

\* app.post('/loginSubmit'): validation, outside the try block.
LoginSubmit(r) ==
  /\ At(r, "POST /loginSubmit", "handler")
  /\ LET error == LoginValidate(req[r].body)
     IN IF error # None THEN Respond(r, Send(200, error[1]))
        ELSE req' = [req EXCEPT ![r].pc = "login.findOne"]
  /\ UNCHANGED <<version, phase, users, store>>

LoginFindOneEager(r) ==
  /\ At(r, "POST /loginSubmit", "login.findOne")
  /\ \E ok \in BOOLEAN :
       IF ~ok THEN Fail(r, Send(500, LoginError)) /\ UNCHANGED store
       ELSE LET user == FindOneByEmail(users, LoginLookupEmail(req[r].body))
            IN IF user = None
               THEN Respond(r, UserNotFoundResponse) /\ UNCHANGED store
               ELSE /\ req' = [req EXCEPT ![r].pc = "login.compare", ![r].doc = user]
                    /\ store' = [store EXCEPT ![req[r].client] =
                                   Some(LoginSession(version, Sess(r), user[1]))]
  /\ UNCHANGED <<version, phase, users>>

\* await users.findOne({ email: value.email })
LoginFindOne(r) ==
  /\ At(r, "POST /loginSubmit", "login.findOne")
  /\ \E ok \in BOOLEAN :
       IF ~ok THEN Fail(r, Send(500, LoginError))
       ELSE LET user == FindOneByEmail(users, LoginLookupEmail(req[r].body))
            IN IF user = None THEN Respond(r, UserNotFoundResponse)
               ELSE req' = [req EXCEPT ![r].pc = "login.compare", ![r].doc = user]
  /\ UNCHANGED <<version, phase, users, store>>

\* await bcrypt.compare(value.password, user.password), then the session.
LoginCompare(r) ==
  /\ At(r, "POST /loginSubmit", "login.compare")
  /\ \E ok \in BOOLEAN :
       IF ~ok THEN Fail(r, Send(500, LoginError))
       ELSE LET user == req[r].doc[1]
                passwordMatch == BcryptCompare(req[r].body.password, user.password)
            IN IF ~passwordMatch THEN Respond(r, PasswordMismatchResponse)
               ELSE RespondAndSave(r, LoginSession(version, Sess(r), user),
                                   LoginRedirect(version, user))
  /\ UNCHANGED <<version, phase, users, store>>

\* ------------------------------------------------------------------ logout
\* app.get('/logout'): req.session.destroy(cb) drops req.session and asks
\* the store to delete the session.
Logout(r) ==
  /\ At(r, "GET /logout", "handler")
  /\ req' = [req EXCEPT ![r].pc = "logout.destroy", ![r].session = None]
  /\ UNCHANGED <<version, phase, users, store>>

DestroySessionKeep(st, c) == st

\* store.destroy(token): the session of the token is deleted.
DestroySession(st, c) == [st EXCEPT ![c] = None]

\* The store answers the destroy, and the callback sends the response.
LogoutDestroy(r) ==
  /\ At(r, "GET /logout", "logout.destroy")
  /\ \E ok \in BOOLEAN :
       IF ~ok THEN Fail(r, Send(500, LogoutError)) /\ UNCHANGED store
       ELSE /\ store' = DestroySession(store, req[r].client)
            /\ Respond(r, Redirect("/"))
  /\ UNCHANGED <<version, phase, users>>

\* ------------------------------------------------------------------- admin
\* !req.session.user
NoSessionUser(session) == session.user = None

NotAdminTypeNever(session) == FALSE

NotAdminTypeLive(session) ==
  LET doc == FindOneByEmail(users, session.user[1].email)
  IN doc = None \/ TypeOrUser(doc[1]) # "admin"

\* req.session.user.type !== 'admin'
NotAdminType(session) == session.user[1].type # "admin"

ForbiddenOnlyAnonymous(session) == NoSessionUser(session)

\* The gate of promote and demote:
\* !req.session.user || req.session.user.type !== 'admin'
Forbidden(session) == NoSessionUser(session) \/ NotAdminType(session)

\* The 403 page of GET /admin.
ForbiddenPage(v) ==
  IF v = 1 THEN Render(403, "403", [page |-> "403"])
  ELSE Render(403, "error", [message |-> "You are not authorized to view this page"])

\* app.get('/admin'): the two gates, then the find is started.
Admin(r) ==
  /\ At(r, "GET /admin", "handler")
  /\ IF NoSessionUser(Sess(r)) THEN Respond(r, Redirect("/login"))
     ELSE IF NotAdminType(Sess(r)) THEN Respond(r, ForbiddenPage(version))
     ELSE req' = [req EXCEPT ![r].pc = "admin.find"]
  /\ UNCHANGED <<version, phase, users, store>>

\* await users.find().toArray(), then the list is rendered.
AdminFind(r) ==
  /\ At(r, "GET /admin", "admin.find")
  /\ \E ok \in BOOLEAN :
       IF ~ok THEN Fail(r, Render(500, "error", [message |-> "Database error"]))
       ELSE Respond(r, Render(200, "admin", [users |-> users]))
  /\ UNCHANGED <<version, phase, users, store>>

DemotedTypeCopied == "admin"

\* The role values written by promote ({ $set: { type: 'admin' } }) and by
\* demote ({ $set: { type: 'user' } }).
PromotedType == "admin"
DemotedType == "user"

\* app.post('/admin/promote'): the gate; new ObjectId(...) may throw.
AdminPromote(r) ==
  /\ At(r, "POST /admin/promote", "handler")
  /\ IF Forbidden(Sess(r)) THEN Respond(r, Send(403, "Forbidden"))
     ELSE IF ~IsObjectId(req[r].body.userId)
       THEN Respond(r, Render(500, "error", [message |-> "Error promoting user"]))
     ELSE req' = [req EXCEPT ![r].pc = "promote.updateOne"]
  /\ UNCHANGED <<version, phase, users, store>>

\* await users.updateOne({ _id }, { $set: { type: 'admin' } })
PromoteUpdateOne(r) ==
  /\ At(r, "POST /admin/promote", "promote.updateOne")
  /\ \E ok \in BOOLEAN :
       IF ~ok
       THEN /\ Fail(r, Render(500, "error", [message |-> "Error promoting user"]))
            /\ UNCHANGED users
       ELSE /\ users' = UpdateOneType(users, req[r].body.userId, PromotedType)
            /\ Respond(r, Redirect("/admin"))
  /\ UNCHANGED <<version, phase, store>>

\* app.post('/admin/demote'): the gate; new ObjectId(...) may throw.
AdminDemote(r) ==
  /\ At(r, "POST /admin/demote", "handler")
  /\ IF Forbidden(Sess(r)) THEN Respond(r, Send(403, "Forbidden"))
     ELSE IF ~IsObjectId(req[r].body.userId)
       THEN Respond(r, Render(500, "error", [message |-> "Error demoting user"]))
     ELSE req' = [req EXCEPT ![r].pc = "demote.findOne"]
  /\ UNCHANGED <<version, phase, users, store>>

\* The page of a missing target.  Version 1 does not return after it.
TargetNotFound(v) ==
  IF v = 1 THEN Render(404, "404", [page |-> "404"])
  ELSE Render(404, "error", [message |-> "User not found"])

IsSelfNever(targetUser, session) == FALSE

\* targetUser.email === req.session.user.email
IsSelf(targetUser, session) == targetUser.email = session.user[1].email

\* await users.findOne({ _id }), the missing-target answer and the
\* self-demotion guard.
DemoteFindOne(r) ==
  /\ At(r, "POST /admin/demote", "demote.findOne")
  /\ \E ok \in BOOLEAN :
       IF ~ok THEN Fail(r, Render(500, "error", [message |-> "Error demoting user"]))
       ELSE LET targetUser == FindOneById(users, req[r].body.userId)
            IN IF targetUser = None
               THEN IF version = 1
                    \* no return: targetUser.email throws a TypeError and the
                    \* catch block calls res again on the finished response
                    THEN Finish(r, [req[r] EXCEPT !.resp =
                           @ \o <<TargetNotFound(version),
                              Render(500, "error", [message |-> "Error demoting user"])>>])
                    ELSE Respond(r, TargetNotFound(version))
               ELSE IF IsSelf(targetUser[1], Sess(r))
                 THEN Respond(r, Send(200, CannotDemoteSelf))
               ELSE req' = [req EXCEPT ![r].pc = "demote.updateOne"]
  /\ UNCHANGED <<version, phase, users, store>>

\* await users.updateOne({ _id }, { $set: { type: 'user' } })
DemoteUpdateOne(r) ==
  /\ At(r, "POST /admin/demote", "demote.updateOne")
  /\ \E ok \in BOOLEAN :
       IF ~ok
       THEN /\ Fail(r, Render(500, "error", [message |-> "Error demoting user"]))
            /\ UNCHANGED users
       ELSE /\ users' = UpdateOneType(users, req[r].body.userId, DemotedType)
            /\ Respond(r, Redirect("/admin"))
  /\ UNCHANGED <<version, phase, store>>

\* ------------------------------------------------------------ specification
Handle(r) ==
  \/ SessionSave(r)
  \/ Home(r)
  \/ Members(r)
  \/ NotFound(r)
  \/ SignupSubmit(r)
  \/ SignupFindOne(r)
  \/ SignupHash(r)
  \/ SignupInsertOne(r)
  \/ LoginSubmit(r)
  \/ LoginFindOne(r)
  \/ LoginCompare(r)
  \/ Logout(r)
  \/ LogoutDestroy(r)
  \/ Admin(r)
  \/ AdminFind(r)
  \/ AdminPromote(r)
  \/ PromoteUpdateOne(r)
  \/ AdminDemote(r)
  \/ DemoteFindOne(r)
  \/ DemoteUpdateOne(r)

\* Requests are handled one at a time: a request is received when no other
\* is in flight.
Next ==
  \/ Connect
  \/ \E r \in Slots, c \in Clients, route \in Routes :
       \E body \in Bodies(route) : ReceiveAlone(r, c, route, body)
  \/ \E r \in Slots : Handle(r)

Spec == Init /\ [][Next]_vars

\* Concurrent requests of version 1 to the routes of the signup flow: a
\* request is received while another is suspended at an await.
RaceRoutes == {"POST /signupSubmit", "GET /members", "GET /logout"}

RaceBodies(route) ==
  IF route = "POST /signupSubmit"
  THEN {SignupBody("Ada", e, "secret1") : e \in {AdaLower, AdaMixed}}
  ELSE {NoBody}

InitRace == Init /\ version = 1

NextRace ==
  \/ Connect
  \/ \E r \in Slots, c \in Clients, route \in RaceRoutes :
       \E body \in RaceBodies(route) : Receive(r, c, route, body)
  \/ \E r \in Slots : SessionSave(r)
  \/ \E r \in Slots : SignupSubmit(r)
  \/ \E r \in Slots : SignupFindOne(r)
  \/ \E r \in Slots : SignupHash(r)
  \/ \E r \in Slots : SignupInsertOne(r)
  \/ \E r \in Slots : Members(r)
  \/ \E r \in Slots : Logout(r)
  \/ \E r \in Slots : LogoutDestroy(r)

SpecRace == InitRace /\ [][NextRace]_vars

\* =================================================================== claims
Done(r) == req[r].pc = "done"

\* The session the store holds for a client has no user snapshot.
NoSnapshot(s) == s = None \/ s[1].user = None

\* The stored session counts as logged in (version 2 keeps only the name).
Authenticated(v, s) ==
  /\ s # None
  /\ IF v = 2 THEN s[1].name # None ELSE s[1].user # None

\* The stored session carries the identity of the user document.
AuthenticatedAs(v, s, doc) ==
  /\ Authenticated(v, s)
  /\ IF v = 2 THEN s[1].name[1] = doc.name
     ELSE s[1].user[1].email = doc.email /\ s[1].user[1].name = doc.name

\* C1: a valid signup with an unused email, handled alone and without a
\* storage or hashing failure, adds exactly one user record, leaves the
\* caller's session authenticated as that user and redirects to /members,
\* in each of the three versions.
C1_ValidSignupCreatesUser ==
  \A r \in Slots :
    ( /\ Done(r)
      /\ req[r].route = "POST /signupSubmit"
      /\ SignupValidate(req[r].body) = None
      /\ ~req[r].before.taken
      /\ ~req[r].fault )
    => /\ Len(users) = req[r].before.n + 1
       /\ ToLowerCase(users[Len(users)].email) = ToLowerCase(req[r].body.email)
       /\ AuthenticatedAs(version, store[req[r].client], users[Len(users)])
       /\ req[r].resp = <<Redirect("/members")>>

\* C2: a signup whose email, compared after lower-casing, already belongs
\* to a stored user adds no record, and a caller who was unauthenticated
\* before it is unauthenticated after it, in each of the three versions.
C2_DuplicateSignupRejected ==
  \A r \in Slots :
    ( /\ Done(r)
      /\ req[r].route = "POST /signupSubmit"
      /\ req[r].before.taken )
    => /\ Len(users) = req[r].before.n
       /\ ~Authenticated(version, req[r].before.session)
            => ~Authenticated(version, store[req[r].client])

\* C3: in version 1 a signup that has passed the existing-email lookup is
\* never checked again: its hash and insert steps go ahead whatever other
\* requests have stored meanwhile, and the insert always adds a record with
\* the request's lower-cased email.
C3_InsertNotRechecked ==
  [][\A r \in Slots :
       ( /\ req[r].route = "POST /signupSubmit"
         /\ req[r].pc \in {"signup.hash", "signup.insertOne"}
         /\ req'[r] # req[r]
         /\ ~req'[r].fault )
       => IF req[r].pc = "signup.hash"
          THEN req'[r].pc = "signup.insertOne" /\ users' = users
          ELSE /\ req'[r].pc = "save"
               /\ Len(users') = Len(users) + 1
               /\ users'[Len(users')].email = ToLowerCase(req[r].body.email)]_vars

\* Two records share one email, and both clients are authenticated with it.
C3_Witness ==
  \E i, j \in 1 .. Len(users) :
    /\ i < j
    /\ users[i].email = users[j].email
    /\ \A c \in Clients :
         ~NoSnapshot(store[c]) /\ store[c][1].user[1].email = users[i].email

\* The hash is the hash of the password under the hash's own salt.
Verifies(password, hash) == BcryptHash(password, hash.rounds, hash.salt) = hash

\* A finished version-1 login for an email that has a record, with a
\* password that does not verify against that record's hash.
WrongPasswordLogin(r) ==
  /\ version = 1
  /\ Done(r)
  /\ req[r].route = "POST /loginSubmit"
  /\ LoginValidate(req[r].body) = None
  /\ FindOneByEmail(users, req[r].body.email) # None
  /\ ~Verifies(req[r].body.password,
               FindOneByEmail(users, req[r].body.email)[1].password)

\* C4 as stated: after a login with an existing email and a wrong password
\* the caller's session has no user snapshot.
C4_WrongPasswordNoSnapshot ==
  \A r \in Slots : WrongPasswordLogin(r) => NoSnapshot(store[req[r].client])

\* C4 as amended: a login with an existing email and a wrong password leaves
\* the caller's session as it was before the request; and a login changes
\* the session only when the password verifies against the hash of the
\* record found for the submitted email, whose snapshot the session then is.
C4_WrongPasswordKeepsSession ==
  \A r \in Slots :
    /\ WrongPasswordLogin(r) => store[req[r].client] = req[r].before.session
    /\ ( /\ version = 1
         /\ Done(r)
         /\ req[r].route = "POST /loginSubmit"
         /\ store[req[r].client] # req[r].before.session )
       => LET user == FindOneByEmail(users, req[r].body.email)
          IN /\ user # None
             /\ Verifies(req[r].body.password, user[1].password)
             /\ store[req[r].client][1].user[1].email = user[1].email

\* A wrong-password login by a client that had no session.
C4_Witness ==
  \E r \in Slots :
    /\ WrongPasswordLogin(r)
    /\ req[r].before.session = None
    /\ req[r].resp = <<PasswordMismatchResponse>>
    /\ store[req[r].client] = None

\* A finished version-1 login for a well-formed email that has no record.
UnknownEmailLogin(r) ==
  /\ version = 1
  /\ Done(r)
  /\ req[r].route = "POST /loginSubmit"
  /\ LoginValidate(req[r].body) = None
  /\ FindOneByEmail(users, req[r].body.email) = None

\* C5: a login with an unknown email and a login with a known email and a
\* wrong password, neither hit by a storage failure, have the same
\* observable outcome: status 200 with the invalid-combination body, and
\* the caller's stored session unchanged.
C5_SameOutcome ==
  \A r \in Slots :
    ((UnknownEmailLogin(r) \/ WrongPasswordLogin(r)) /\ ~req[r].fault)
    => /\ req[r].resp = <<Send(200, InvalidCombination)>>
       /\ store[req[r].client] = req[r].before.session

\* An unknown-email login while other accounts exist.
C5_Witness ==
  \E r \in Slots :
    /\ UnknownEmailLogin(r)
    /\ ~req[r].fault
    /\ Len(users) > 0
    /\ req[r].resp = <<Send(200, InvalidCombination)>>

\* C6: in version 1, a login with (E, P), not hit by a failure, when a
\* record stored by a signup with (E, P) exists (its email is the
\* lower-cased E and its hash verifies P), authenticates the caller as that
\* user and redirects to /members.
C6_SignupLoginRoundTrip ==
  \A r \in Slots :
    ( /\ version = 1
      /\ Done(r)
      /\ req[r].route = "POST /loginSubmit"
      /\ LoginValidate(req[r].body) = None
      /\ ~req[r].fault
      /\ FindOneByEmail(users, ToLowerCase(req[r].body.email)) # None
      /\ Verifies(req[r].body.password,
           FindOneByEmail(users, ToLowerCase(req[r].body.email))[1].password) )
    => /\ AuthenticatedAs(1, store[req[r].client],
            FindOneByEmail(users, ToLowerCase(req[r].body.email))[1])
       /\ req[r].resp = <<Redirect("/members")>>

\* C7: in version 1 a request whose session has no user snapshot is never
\* served a protected page: GET /members answers with a redirect to /,
\* GET /admin with a redirect to /login, and the user list is not read.
C7_NoSnapshotNoProtectedPage ==
  \A r \in Slots :
    (version = 1 /\ req[r].pc # "idle" /\ NoSnapshot(req[r].before.session))
    => /\ (Done(r) /\ req[r].route = "GET /members")
            => req[r].resp = <<Redirect("/")>>
       /\ (Done(r) /\ req[r].route = "GET /admin")
            => req[r].resp = <<Redirect("/login")>>
       /\ req[r].pc # "admin.find"

\* GET /members of a client whose session was destroyed or never made,
\* while user records exist.
C7_Witness ==
  \E r \in Slots :
    /\ version = 1
    /\ Done(r)
    /\ req[r].route = "GET /members"
    /\ req[r].before.session = None
    /\ Len(users) > 0
    /\ req[r].resp = <<Redirect("/")>>

\* The response renders the user list.
RendersUserList(resp) ==
  \E i \in 1 .. Len(resp) : "view" \in DOMAIN resp[i] /\ resp[i].view = "admin"

\* C8: in version 1 GET /admin with a session whose snapshot role is not
\* 'admin' answers with the 403 page, not a redirect, and never reads or
\* renders the user list; the list is read and rendered only for a session
\* whose snapshot role is 'admin'.
C8_NonAdminForbidden ==
  \A r \in Slots :
    (version = 1 /\ req[r].route = "GET /admin" /\ req[r].pc # "idle")
    => /\ (Done(r) /\ ~NoSnapshot(req[r].session)
             /\ req[r].session[1].user[1].type # "admin")
            => /\ req[r].resp = <<ForbiddenPage(1)>>
               /\ req[r].resp[1].status = 403
       /\ (req[r].pc = "admin.find" \/ RendersUserList(req[r].resp))
            => /\ ~NoSnapshot(req[r].session)
               /\ req[r].session[1].user[1].type = "admin"

\* GET /admin by a logged-in user whose snapshot role is 'user'.
C8_Witness ==
  \E r \in Slots :
    /\ version = 1
    /\ Done(r)
    /\ req[r].route = "GET /admin"
    /\ ~NoSnapshot(req[r].session)
    /\ req[r].session[1].user[1].type = "user"
    /\ req[r].resp[1].status = 403

RoleRoutes == {"POST /admin/promote", "POST /admin/demote"}

\* C9: in version 1 the role of a user record changes only in the update
\* step of a promote or demote request whose session snapshot has role
\* 'admin'; a promote or demote from a session without a snapshot or with a
\* non-admin snapshot is answered 403 and leaves the users collection as
\* it is.
C9_RoleChangeOnlyByAdmin ==
  [][version = 1 =>
       /\ \A i \in 1 .. Len(users) :
            (i <= Len(users') /\ TypeOrUser(users'[i]) # TypeOrUser(users[i]))
            => \E r \in Slots :
                 /\ req[r].route \in RoleRoutes
                 /\ req[r].pc \in {"promote.updateOne", "demote.updateOne"}
                 /\ ~NoSnapshot(req[r].session)
                 /\ req[r].session[1].user[1].type = "admin"
                 /\ req'[r].pc = "done"
       /\ \A r \in Slots :
            ( /\ req[r].route \in RoleRoutes
              /\ req[r].pc = "handler"
              /\ \/ NoSnapshot(req[r].session)
                 \/ req[r].session[1].user[1].type # "admin"
              /\ req'[r] # req[r] )
            => /\ req'[r].pc = "done"
               /\ req'[r].resp = <<Send(403, "Forbidden")>>
               /\ users' = users]_vars

\* An admin session has promoted a record created by a signup.
C9_Witness ==
  \E r \in Slots :
    /\ version = 1
    /\ Done(r)
    /\ req[r].route = "POST /admin/promote"
    /\ ~NoSnapshot(req[r].session)
    /\ req[r].session[1].user[1].type = "admin"
    /\ req[r].resp = <<Redirect("/admin")>>
    /\ req[r].body.userId \in 2 .. Len(users)
    /\ users[req[r].body.userId].type = "admin"
    /\ users[req[r].body.userId].email # req[r].session[1].user[1].email

\* C10: in version 1, when an admin's demote request finds a target record
\* whose email equals the caller's session email, the request ends there
\* with the 'You cannot demote yourself' answer and the users collection,
\* so that record's role, is unchanged.
C10_SelfDemotionRefused ==
  [][version = 1 =>
       \A r \in Slots :
         ( /\ req[r].route = "POST /admin/demote"
           /\ req[r].pc = "demote.findOne"
           /\ FindOneById(users, req[r].body.userId) # None
           /\ FindOneById(users, req[r].body.userId)[1].email
                = req[r].session[1].user[1].email
           /\ req'[r] # req[r]
           /\ ~req'[r].fault )
         => /\ req'[r].pc = "done"
            /\ req'[r].resp = <<Send(200, CannotDemoteSelf)>>
            /\ users' = users]_vars

\* An admin has asked to demote their own record and has been refused.
C10_Witness ==
  \E r \in Slots :
    /\ version = 1
    /\ Done(r)
    /\ req[r].route = "POST /admin/demote"
    /\ req[r].resp = <<Send(200, CannotDemoteSelf)>>
    /\ FindOneById(users, req[r].body.userId) # None
    /\ FindOneById(users, req[r].body.userId)[1].email
         = req[r].session[1].user[1].email
    /\ FindOneById(users, req[r].body.userId)[1].type = "admin"

\* A finished version-1 promote or demote of an admin session, not hit by a
\* failure, whose target was a stored record when the request arrived.
AdminRoleRequest(r, route) ==
  /\ version = 1
  /\ Done(r)
  /\ req[r].route = route
  /\ ~req[r].fault
  /\ ~NoSnapshot(req[r].session)
  /\ req[r].session[1].user[1].type = "admin"
  /\ FindOneById(req[r].before.users, req[r].body.userId) # None

\* C11: in version 1, handled with no other request in between, a promote
\* of a stored user U by an admin sets U's role to 'admin', and a demote of
\* U by an admin whose session email is not U's sets U's role to 'user':
\* promote followed by demote returns a freshly created user to 'user'.
C11_PromoteThenDemote ==
  \A r \in Slots :
    /\ AdminRoleRequest(r, "POST /admin/promote")
         => /\ FindOneById(users, req[r].body.userId)[1].type = "admin"
            /\ req[r].resp = <<Redirect("/admin")>>
    /\ ( /\ AdminRoleRequest(r, "POST /admin/demote")
         /\ FindOneById(req[r].before.users, req[r].body.userId)[1].email
              # req[r].session[1].user[1].email )
         => /\ FindOneById(users, req[r].body.userId)[1].type = "user"
            /\ req[r].resp = <<Redirect("/admin")>>

\* A record created by a signup had been promoted to 'admin' when the demote
\* arrived, and the demote has returned it to 'user'.
C11_Witness ==
  \E r \in Slots :
    /\ AdminRoleRequest(r, "POST /admin/demote")
    /\ FindOneById(req[r].before.users, req[r].body.userId)[1].name = "Ada"
    /\ FindOneById(req[r].before.users, req[r].body.userId)[1].type = "admin"
    /\ FindOneById(users, req[r].body.userId)[1].type = "user"

\* C12: in both versions that have the demote route (1 and 3), a demote by
\* an admin whose well-formed target id matches no stored record answers
\* with the 404 page only, leaves the users collection unchanged, and runs
\* no later step of the handler (self-demotion check, update, 500 path).
C12_MissingTargetStops ==
  \A r \in Slots :
    ( /\ version \in {1, 3}
      /\ Done(r)
      /\ req[r].route = "POST /admin/demote"
      /\ ~req[r].fault
      /\ ~NoSnapshot(req[r].session)
      /\ req[r].session[1].user[1].type = "admin"
      /\ IsObjectId(req[r].body.userId)
      /\ FindOneById(req[r].before.users, req[r].body.userId) = None )
    => /\ req[r].resp = <<TargetNotFound(version)>>
       /\ users = req[r].before.users

\* The routes behind the admin gate, and the gate's 403 answer.
GateRoutes == {"GET /admin", "POST /admin/promote", "POST /admin/demote"}

Denied403(r) ==
  req[r].resp = <<IF req[r].route = "GET /admin" THEN ForbiddenPage(version)
                  ELSE Send(403, "Forbidden")>>

\* A gated request of a session with a snapshot is refused with 403 exactly
\* when the snapshot's role is not 'admin', whatever the stored role is.
GateUsesSnapshot ==
  \A r \in Slots :
    ( /\ version = 1
      /\ Done(r)
      /\ req[r].route \in GateRoutes
      /\ ~NoSnapshot(req[r].session) )
    => (Denied403(r) <=> req[r].session[1].user[1].type # "admin")

\* A step of promote or demote that changes the collection changes the role
\* of the target record only and no session, stored or loaded.
RoleChangeFrame ==
  \A r \in Slots :
    ( /\ version = 1
      /\ req[r].pc \in {"promote.updateOne", "demote.updateOne"}
      /\ users' # users )
    => /\ store' = store
       /\ req'[r].session = req[r].session
       /\ Len(users') = Len(users)
       /\ \A i \in 1 .. Len(users) :
            IF users[i]._id = req[r].body.userId
            THEN users'[i] = [users[i] EXCEPT !.type = users'[i].type]
            ELSE users'[i] = users[i]

\* A client's stored session gets a new snapshot only when the session of a
\* signup or login of that client is saved.
SnapshotOnlyByLogin ==
  \A c \in Clients :
    (version = 1 /\ store'[c] # store[c] /\ store'[c] # None)
    => \E r \in Slots :
         /\ req[r].pc = "save"
         /\ req[r].client = c
         /\ req[r].route \in {"POST /signupSubmit", "POST /loginSubmit"}

\* C13: in version 1 a promote or demote of U changes only U's stored role
\* and no session; a session keeps its snapshot until a signup or login of
\* its client, and the gate of GET /admin, promote and demote decides by the
\* snapshot's role.
C13_SnapshotRoleKept ==
  /\ []GateUsesSnapshot
  /\ [][RoleChangeFrame /\ SnapshotOnlyByLogin]_vars

\* GET /admin of a session whose snapshot says 'user' is refused although
\* the stored record of that user has been promoted to 'admin'.
C13_Witness ==
  \E r \in Slots :
    /\ version = 1
    /\ Done(r)
    /\ req[r].route = "GET /admin"
    /\ ~NoSnapshot(req[r].session)
    /\ req[r].session[1].user[1].type = "user"
    /\ FindOneByEmail(users, req[r].session[1].user[1].email) # None
    /\ FindOneByEmail(users, req[r].session[1].user[1].email)[1].type = "admin"
    /\ Denied403(r)

\* A finished GET /logout whose destroy succeeded has redirected to / and
\* left no session for the client's token; one whose destroy failed has
\* answered 500 and nothing else.
LogoutOutcome ==
  \A r \in Slots :
    (version = 1 /\ Done(r) /\ req[r].route = "GET /logout")
    => IF req[r].fault
       THEN req[r].resp = <<Send(500, LogoutError)>>
       ELSE /\ req[r].resp = <<Redirect("/")>>
            /\ store[req[r].client] = None

\* A request that arrived with a token the store has no session for was
\* treated as unauthenticated.
NoSessionUnauthenticated ==
  \A r \in Slots :
    (version = 1 /\ Done(r) /\ req[r].before.session = None)
    => /\ req[r].route = "GET /members" => req[r].resp = <<Redirect("/")>>
       /\ req[r].route = "GET /admin" => req[r].resp = <<Redirect("/login")>>
       /\ req[r].route \in RoleRoutes => req[r].resp = <<Send(403, "Forbidden")>>

\* A token without a stored session gets one only when the session of a
\* signup or login of that client is saved.
NoSessionUntilLogin ==
  \A c \in Clients :
    (version = 1 /\ store[c] = None /\ store'[c] # None)
    => \E r \in Slots :
         /\ req[r].pc = "save"
         /\ req[r].client = c
         /\ req[r].route \in {"POST /signupSubmit", "POST /loginSubmit"}
         /\ Len(req[r].resp) = 1
         /\ req[r].resp[1].status = 302

\* C14: in version 1, after a GET /logout whose destroy succeeded the store
\* holds no session for the token, and stays so until a signup or login of
\* that client succeeds; every request arriving in between is answered as
\* unauthenticated (members redirects to /, admin to /login, promote and
\* demote answer 403).  A failed destroy answers 500, not the redirect.
C14_LogoutUnauthenticates ==
  /\ [](LogoutOutcome /\ NoSessionUnauthenticated)
  /\ [][NoSessionUntilLogin]_vars

\* A logged-in client's logout has completed and its session is gone.
C14_Witness ==
  \E r \in Slots :
    /\ version = 1
    /\ Done(r)
    /\ req[r].route = "GET /logout"
    /\ ~req[r].fault
    /\ ~NoSnapshot(req[r].before.session)
    /\ store[req[r].client] = None

\* The request ended in an input-validation error, a business-rule
\* rejection or an authorization denial.
Rejected(r) ==
  \/ req[r].route = "POST /signupSubmit" /\ SignupValidate(req[r].body) # None
  \/ req[r].route = "POST /loginSubmit" /\ LoginValidate(req[r].body) # None
  \/ req[r].route = "POST /signupSubmit"
       /\ req[r].resp = <<Send(200, AlreadyRegistered)>>
  \/ req[r].route = "POST /loginSubmit"
       /\ req[r].resp = <<Send(200, InvalidCombination)>>
  \/ req[r].route = "POST /admin/demote"
       /\ req[r].resp = <<Send(200, CannotDemoteSelf)>>
  \/ req[r].route = "GET /members" /\ req[r].resp = <<Redirect("/")>>
  \/ req[r].route = "GET /admin" /\ req[r].resp = <<Redirect("/login")>>
  \/ req[r].route \in GateRoutes /\ Denied403(r)

\* C15: in version 1 a request that ended in a validation error (signup,
\* login), a business-rule rejection (duplicate email, invalid credentials,
\* self-demotion) or an authorization denial (redirect or 403) has left the
\* users collection and the caller's stored session as they were when the
\* request arrived.
C15_RejectionChangesNothing ==
  \A r \in Slots :
    (version = 1 /\ Done(r) /\ Rejected(r))
    => /\ users = req[r].before.users
       /\ store[req[r].client] = req[r].before.session

\* A logged-in caller's signup with an email already registered has been
\* rejected.
C15_Witness ==
  \E r \in Slots :
    /\ version = 1
    /\ Done(r)
    /\ req[r].route = "POST /signupSubmit"
    /\ req[r].resp = <<Send(200, AlreadyRegistered)>>
    /\ ~NoSnapshot(req[r].before.session)
    /\ Len(users) >= 2

\* A signup or login in which an awaited storage or hashing operation
\* failed has answered 500 and left the caller's stored session, and for a
\* signup the collection, as they were.
FailureAnswers500 ==
  \A r \in Slots :
    ( /\ version = 1
      /\ Done(r)
      /\ req[r].fault
      /\ req[r].route \in {"POST /signupSubmit", "POST /loginSubmit"} )
    => /\ req[r].resp =
            <<Send(500, IF req[r].route = "POST /signupSubmit"
                        THEN RegistrationError ELSE LoginError)>>
       /\ store[req[r].client] = req[r].before.session
       /\ req[r].route = "POST /signupSubmit" => users = req[r].before.users

\* Every stored session snapshot is the snapshot of a stored user record.
SnapshotHasRecord ==
  \A c \in Clients :
    (version = 1 /\ ~NoSnapshot(store[c]))
    => \E i \in 1 .. Len(users) :
         /\ users[i].email = store[c][1].user[1].email
         /\ users[i].name = store[c][1].user[1].name

\* C16: in version 1, when a storage or hashing operation fails during
\* POST /signupSubmit or POST /loginSubmit the request ends with a 500
\* response, the caller's session is not authenticated by it, and a failed
\* signup adds no record; no session holds a snapshot of a user whose record
\* is not stored.
C16_FailureLeavesNoSnapshot == FailureAnswers500 /\ SnapshotHasRecord

\* A valid signup with an unused email has failed in one of its awaited
\* operations while the caller had no session.
C16_Witness ==
  \E r \in Slots :
    /\ version = 1
    /\ Done(r)
    /\ req[r].route = "POST /signupSubmit"
    /\ req[r].fault
    /\ SignupValidate(req[r].body) = None
    /\ ~req[r].before.taken
    /\ req[r].before.session = None
    /\ store[req[r].client] = None

\* After a failed connect the server does not listen and no request has
\* been received.
StartFailedServesNothing ==
  phase.connect = "failed"
    => /\ ~phase.listening
       /\ \A r \in Slots : req[r] = Idle

C18_SignupSnapshotAsLogin ==
  \A r \in Slots :
    ( /\ version = 1
      /\ Done(r)
      /\ req[r].route = "POST /signupSubmit"
      /\ req[r].resp = <<Redirect("/members")>> )
    => LET user == FindOneByEmail(users, ToLowerCase(req[r].body.email))
       IN /\ user # None
          /\ store[req[r].client]
               = Some(LoginSession(version, store[req[r].client][1], user[1]))

\* The fields of a record that no handler writes after the insert.
Identity(doc) ==
  [_id |-> doc._id, name |-> doc.name, email |-> doc.email,
   password |-> doc.password]

\* The record is the target of a promote or demote at its update step.
TargetOfUpdate(doc) ==
  \E r \in Slots :
    /\ req[r].pc \in {"promote.updateOne", "demote.updateOne"}
    /\ req[r].body.userId = doc._id

\* One step of the server: no record is removed, no record's name, email or
\* password changes, and a record changes at all only as the target of a
\* promote or demote.
RecordsKept ==
  version = 1
    => /\ Len(users') >= Len(users)
       /\ \A i \in 1 .. Len(users) :
            /\ Identity(users'[i]) = Identity(users[i])
            /\ users'[i] # users[i] => TargetOfUpdate(users[i])

\* C19: in version 1 a user record is never deleted and its name, email
\* and password hash never change; the collection only grows, and a promote
\* or demote changes at most the role of the one targeted record.
C19_RecordsOnlyGrow == [][RecordsKept]_vars

\* A promote or demote has changed the role of one record of a collection
\* of at least two, and another record is as it was.
C19_Witness ==
  \E r \in Slots :
    /\ version = 1
    /\ Done(r)
    /\ req[r].route \in RoleRoutes
    /\ ~req[r].fault
    /\ Len(users) >= 2
    /\ Len(users) = Len(req[r].before.users)
    /\ \E i, j \in 1 .. Len(users) :
         /\ users[i].type # req[r].before.users[i].type
         /\ users[i]._id = req[r].body.userId
         /\ j # i
         /\ users[j] = req[r].before.users[j]

\* The upper-case letters of the modelled alphabet.
UpperChars == {"A", "B"}

IsLowerCase(email) == \A i \in 1 .. Len(email) : email[i] \notin UpperChars

\* Every stored email is lower-case and every stored role is one of the two.
StoredEmailsAndRoles ==
  version = 1
    => \A i \in 1 .. Len(users) :
         /\ IsLowerCase(users[i].email)
         /\ "type" \in DOMAIN users[i]
         /\ users[i].type \in {"user", "admin"}

\* The record a finished successful signup has inserted: the lower-cased
\* email, a salted bcrypt hash that verifies the submitted password, and
\* role 'user'.
SignupRecord ==
  \A r \in Slots :
    ( /\ version = 1
      /\ Done(r)
      /\ req[r].route = "POST /signupSubmit"
      /\ req[r].resp = <<Redirect("/members")>> )
    => /\ Len(users) = Len(req[r].before.users) + 1
       /\ LET doc == users[Len(users)]
          IN /\ doc.name = req[r].body.name
             /\ Len(doc.email) = Len(req[r].body.email)
             /\ \A i \in 1 .. Len(doc.email) :
                  doc.email[i] = LowerChar(req[r].body.email[i])
             /\ DOMAIN doc.password = {"alg", "rounds", "salt", "of"}
             /\ doc.password.alg = "bcrypt"
             /\ doc.password.rounds = SaltRounds
             /\ doc.password.salt \in Salts
             /\ Verifies(req[r].body.password, doc.password)
             /\ doc.type = "user"

\* C20: in version 1 every record created by POST /signupSubmit stores the
\* lower-cased form of the submitted email, the salted hash of the password
\* and not the password itself, and role 'user'; in every reachable state
\* every stored email is lower-case and every stored role is 'user' or
\* 'admin'.
C20_StoredRecordShape == StoredEmailsAndRoles /\ SignupRecord

\* A signup that submitted an email with an upper-case letter has stored
\* its record.
C20_Witness ==
  \E r \in Slots :
    /\ version = 1
    /\ Done(r)
    /\ req[r].route = "POST /signupSubmit"
    /\ req[r].resp = <<Redirect("/members")>>
    /\ ~IsLowerCase(req[r].body.email)
    /\ users[Len(users)].email = AdaLower

\* Some stored record has role 'admin'.
HasAdmin(docs) ==
  \E i \in 1 .. Len(docs) : TypeOrUser(docs[i]) = "admin"

\* C21: in version 1, from any state in which some user record has role
\* 'admin', every step of any request (signup, login, logout, promote,
\* demote) leads to a state in which some user record still has role
\* 'admin'.
C21_AdminRemains ==
  [][(version = 1 /\ HasAdmin(users)) => HasAdmin(users')]_vars

\* The session, stored or loaded by a request, has no snapshot of role
\* 'admin'.
NoAdminSession(s) == NoSnapshot(s) \/ s[1].user[1].type # "admin"

\* No user record has role 'admin', and no session, in the store or in the
\* hands of a request, has a snapshot of role 'admin'.
NoAdminAnywhere ==
  /\ ~HasAdmin(users)
  /\ \A c \in Clients : NoAdminSession(store[c])
  /\ \A r \in Slots : NoAdminSession(req[r].session)

====
